---- MODULE Spec2Model ----
(***************************************************************************)
(* The two teaching programs of the repository as one state machine.       *)
(*                                                                         *)
(*   lesson1    src/lesson1_variables.cpp        Variable-Types Walkthrough *)
(*   exercise1  src/exercise1_personal_info.cpp  Personal-Info Calculator   *)
(*                                                                         *)
(* A run executes one of the two main() functions statement by statement.  *)
(* pc is the source line of the next statement, env maps the variables in  *)
(* scope to their values, fmt is the format state of std::cout, out is the *)
(* text written to standard output (one entry per std::endl) and status    *)
(* holds the value returned by main once it has returned.                  *)
(*                                                                         *)
(* Text is a sequence of one-character strings.  A floating-point value is *)
(* a decimal record [neg, ip, fp]: sign, integer digits, fraction digits.  *)
(* The binary representation error of float/double/long double is below    *)
(* every precision the programs display, so a literal is kept as written.  *)
(***************************************************************************)
EXTENDS Integers, Sequences, FiniteSets, TLC

\* ------------------------------------------------------------------ bounds

\* Ages the reader may write at exercise1 line 11: -MaxAge .. MaxAge.
MaxAge == 30

\* Heights the reader may write at exercise1 line 12: 0.00, 0.25, ..,
\* MaxHeightQ * 0.25 metres.
MaxHeightQ == 7

\* ------------------------------------------------------------- text, digits

\* The helpers below are functions, not operators, so that an argument is
\* evaluated once, where it is applied.

DigitChars == <<"0", "1", "2", "3", "4", "5", "6", "7", "8", "9">>

DigitSeqs == Seq(0..9)

Chars[ds \in DigitSeqs] == [i \in 1..Len(ds) |-> DigitChars[ds[i] + 1]]

Front(s) == SubSeq(s, 1, Len(s) - 1)

Last(s) == s[Len(s)]

Zeros[k \in Nat] == [i \in 1..k |-> 0]

AllZero(ds) == \A i \in 1..Len(ds) : ds[i] = 0

NatDigits[n \in Nat] ==
    IF n < 10 THEN <<n>> ELSE Append(NatDigits[n \div 10], n % 10)

DigitsVal[ds \in DigitSeqs] ==
    IF ds = <<>> THEN 0 ELSE DigitsVal[Front(ds)] * 10 + Last(ds)

IncDigits[ds \in DigitSeqs] ==
    IF ds = <<>> THEN <<1>>
    ELSE IF Last(ds) = 9 THEN Append(IncDigits[Front(ds)], 0)
    ELSE Append(Front(ds), Last(ds) + 1)

StripLeading[ds \in DigitSeqs] ==
    IF Len(ds) > 0 /\ ds[1] = 0 THEN StripLeading[Tail(ds)] ELSE ds

StripTrailing[ds \in DigitSeqs] ==
    IF Len(ds) > 0 /\ Last(ds) = 0 THEN StripTrailing[Front(ds)] ELSE ds

PadLeft[ds \in DigitSeqs, n \in Nat] ==
    IF Len(ds) >= n THEN ds ELSE Zeros[n - Len(ds)] \o ds

PadRight[ds \in DigitSeqs, n \in Nat] ==
    IF Len(ds) >= n THEN ds ELSE ds \o Zeros[n - Len(ds)]

\* ------------------------------------------------------------ decimal values

Decimals == [neg : BOOLEAN, ip : DigitSeqs, fp : DigitSeqs]

\* The decimal m * 10^-e.
DecOf[m \in Int, e \in Nat] ==
    LET a  == IF m < 0 THEN -m ELSE m
        ds == PadLeft[NatDigits[a], e + 1]
        k  == Len(ds) - e
    IN  [neg |-> m < 0, ip |-> SubSeq(ds, 1, k), fp |-> SubSeq(ds, k + 1, Len(ds))]

Mant[d \in Decimals] == (IF d.neg THEN -1 ELSE 1) * DigitsVal[d.ip \o d.fp]

\* double * double
DecMul[a \in Decimals, b \in Decimals] ==
    DecOf[Mant[a] * Mant[b], Len(a.fp) + Len(b.fp)]

\* Round the digit string ds to its first n digits, ties to even.  The result
\* has n digits, or n + 1 when the carry runs out of the front.
RoundDigits[ds \in DigitSeqs, n \in Nat] ==
    IF Len(ds) <= n THEN PadRight[ds, n]
    ELSE LET keep == SubSeq(ds, 1, n)
             nxt  == ds[n + 1]
             rest == SubSeq(ds, n + 2, Len(ds))
             odd  == n > 0 /\ keep[n] % 2 = 1
             up   == \/ nxt > 5
                     \/ nxt = 5 /\ ~AllZero(rest)
                     \/ nxt = 5 /\ AllZero(rest) /\ odd
         IN  IF up THEN IncDigits[keep] ELSE keep

\* The digit string r split p digits from its end.
SplitAt[r \in DigitSeqs, p \in Nat] ==
    [ip |-> SubSeq(r, 1, Len(r) - p), fp |-> SubSeq(r, Len(r) - p + 1, Len(r))]

\* The decimal d rounded to p fraction digits.
RoundTo[d \in Decimals, p \in Nat] ==
    [neg |-> d.neg] @@ SplitAt[RoundDigits[d.ip \o d.fp, Len(d.ip) + p], p]

\* ------------------------------------------------- operator<< of std::ostream

FmtStates == [fixed : BOOLEAN, precision : Nat, boolalpha : BOOLEAN]

\* operator<<(int), operator<<(short), operator<<(long), operator<<(size_t)
FormatInt[n \in Int] ==
    IF n < 0 THEN <<"-">> \o Chars[NatDigits[-n]] ELSE Chars[NatDigits[n]]

\* long long values are kept as two base-10^8 limbs.
LongLongs == [hi : Nat, lo : Nat]

\* operator<<(long long)
FormatLongLong[v \in LongLongs] ==
    IF v.hi = 0 THEN Chars[NatDigits[v.lo]]
    ELSE Chars[NatDigits[v.hi]] \o Chars[PadLeft[NatDigits[v.lo], 8]]

SignText[neg \in BOOLEAN] == IF neg THEN <<"-">> ELSE <<>>

PointText[ip \in DigitSeqs, fp \in DigitSeqs] ==
    Chars[ip] \o (IF fp = <<>> THEN <<>> ELSE <<".">> \o Chars[fp])

\* floatfield == fixed: exactly p digits after the point.
FormatFixed[d \in Decimals, p \in Nat] ==
    LET r == RoundTo[d, p] IN SignText[d.neg] \o PointText[r.ip, r.fp]

\* The decimal exponent of a decimal that is not zero.
Exponent[d \in Decimals] ==
    IF ~AllZero(d.ip) THEN Len(StripLeading[d.ip]) - 1
    ELSE -(Len(d.fp) - Len(StripLeading[d.fp]) + 1)

\* %g layout of the P significant digits sigR of a number with exponent X.
LayoutGeneral[sigR \in DigitSeqs, X \in Int, P \in Nat] ==
    IF X < -4 \/ X >= P
    THEN PointText[<<sigR[1]>>, StripTrailing[Tail(sigR)]]
         \o <<"e", IF X < 0 THEN "-" ELSE "+">>
         \o Chars[PadLeft[NatDigits[IF X < 0 THEN -X ELSE X], 2]]
    ELSE IF X >= 0
    THEN PointText[SubSeq(sigR, 1, X + 1), StripTrailing[SubSeq(sigR, X + 2, P)]]
    ELSE PointText[<<0>>, Zeros[-X - 1] \o StripTrailing[sigR]]

\* The digits r of a number with exponent X0, rounded to P significant
\* digits: a carry out of the front raises the exponent.
LayoutRounded[r \in DigitSeqs, X0 \in Int, P \in Nat] ==
    LayoutGeneral[SubSeq(r, 1, P), IF Len(r) > P THEN X0 + 1 ELSE X0, P]

\* floatfield unset (the default): %g, p significant digits (1 when p is
\* 0), trailing zeros and a trailing point removed.
FormatGeneral[d \in Decimals, p \in Nat] ==
    IF AllZero(d.ip \o d.fp) THEN SignText[d.neg] \o <<"0">>
    ELSE SignText[d.neg]
         \o LayoutRounded[RoundDigits[StripLeading[d.ip \o d.fp],
                                      IF p = 0 THEN 1 ELSE p],
                          Exponent[d], IF p = 0 THEN 1 ELSE p]

\* operator<<(float), operator<<(double), operator<<(long double)
FormatFloat[d \in Decimals, f \in FmtStates] ==
    IF f.fixed THEN FormatFixed[d, f.precision]
    ELSE FormatGeneral[d, f.precision]

\* operator<<(bool)
FormatBool[b \in BOOLEAN, f \in FmtStates] ==
    IF f.boolalpha THEN (IF b THEN <<"t", "r", "u", "e">>
                              ELSE <<"f", "a", "l", "s", "e">>)
    ELSE (IF b THEN <<"1">> ELSE <<"0">>)

\* operator<<(char)
FormatChar(c) == <<c>>

\* ------------------------------------------------------------------- state

VARIABLES
    prog,    \* which main() runs: "lesson1" or "exercise1"
    edit,    \* the placeholder values written at exercise1 lines 10-14
    pc,      \* source line of the next statement
    env,     \* the variables in scope and their values
    fmt,     \* std::cout's format state: floatfield, precision, boolalpha
    depth,   \* number of nested blocks open inside main's body
    out,     \* the lines written to standard output
    status   \* <<>> while main runs, <<r>> once it has returned r

vars == <<prog, edit, pc, env, fmt, depth, out, status>>

\* A streamed string literal, and a streamed value: the expression it comes
\* from and the text operator<< produced for it.
Lit(s) == [lit |-> s, of |-> "", txt |-> <<>>]

Val(e, t) == [lit |-> "", of |-> e, txt |-> t]

\* exercise1 line 10, and a second name a reader might write there.
PlaceholderName == <<"Y", "o", "u", "r", " ", "N", "a", "m", "e", " ", "H", "e", "r", "e">>

OtherName == <<"A", "d", "a">>

Names == {PlaceholderName, OtherName}

Ages == (-MaxAge)..MaxAge

\* Heights in hundredths of a metre.
Heights == {25 * q : q \in 0..MaxHeightQ}

Edits == [name : Names, age : Ages, height : Heights, isLearning : BOOLEAN]

\* The values as the repository ships them (exercise1 lines 10-14).
DefaultEdit ==
    [name |-> PlaceholderName, age |-> 0, height |-> 0, isLearning |-> TRUE]

\* A default-constructed std::ostream: general notation, precision 6,
\* bools as 1/0.
DefaultFmt == [fixed |-> FALSE, precision |-> 6, boolalpha |-> FALSE]

NoVars == [v \in {} |-> 0]

Init ==
    /\ prog \in {"lesson1", "exercise1"}
    /\ edit \in (IF prog = "exercise1" THEN Edits ELSE {DefaultEdit})
    /\ pc = (IF prog = "lesson1" THEN 6 ELSE 5)
    /\ env = NoVars
    /\ fmt = DefaultFmt
    /\ depth = 0
    /\ out = <<>>
    /\ status = <<>>

At(p, line) == prog = p /\ pc = line /\ status = <<>>

\* std::cout << items... << std::endl;
Cout(items, next) ==
    /\ out' = Append(out, items)
    /\ pc' = next
    /\ UNCHANGED <<prog, edit, env, fmt, depth, status>>

\* A run of declarations with initializers.
Declare(binds, next) ==
    /\ env' = binds @@ env
    /\ pc' = next
    /\ UNCHANGED <<prog, edit, fmt, depth, out, status>>

\* std::cout << manipulators;
Manip(f, next) ==
    /\ fmt' = f
    /\ pc' = next
    /\ UNCHANGED <<prog, edit, env, depth, out, status>>

\* return r; main's locals are destroyed.
Return(r, next) ==
    /\ status' = <<r>>
    /\ env' = NoVars
    /\ pc' = next
    /\ UNCHANGED <<prog, edit, fmt, depth, out>>

IntVal(v) == Val(v, FormatInt[env[v]])

FloatVal(v) == Val(v, FormatFloat[env[v], fmt])

CharVal(v) == Val(v, FormatChar(env[v]))

BoolVal(v) == Val(v, FormatBool[env[v], fmt])

StrVal(v) == Val(v, env[v])

\* ------------------------------------- exercise1_personal_info.cpp, main()

HobbyText == <<"Y", "o", "u", "r", " ", "f", "a", "v", "o", "r", "i", "t", "e", " ", "h", "o", "b", "b", "y">>

CountryText == <<"Y", "o", "u", "r", " ", "C", "o", "u", "n", "t", "r", "y">>

YesText == <<"Y", "e", "s", "!">>

NoText == <<"N", "o">>

E5 == At("exercise1", 5)
      /\ Cout(<<Lit("=== Exercise 1: Personal Information Program ===")>>, 6)

E6 == At("exercise1", 6)
      /\ Cout(<<Lit("Fill in your own information by modifying the variables below:")>>, 7)

E7 == At("exercise1", 7) /\ Cout(<<>>, 10)

\* E10 with a validation step: a negative age ends the run with status 1.
E10_RejectsNegativeAge ==
    At("exercise1", 10)
    /\ IF edit.age < 0 THEN Return(1, 44)
       ELSE Declare([name       |-> edit.name,
                     age        |-> edit.age,
                     height     |-> DecOf[edit.height, 2],
                     grade      |-> "A",
                     isLearning |-> edit.isLearning,
                     hobby      |-> HobbyText,
                     COUNTRY    |-> CountryText], 19)

\* Lines 10-16: name, age, height, grade, isLearning, hobby, COUNTRY.
E10 == At("exercise1", 10)
       /\ Declare([name       |-> edit.name,
                   age        |-> edit.age,
                   height     |-> DecOf[edit.height, 2],
                   grade      |-> "A",
                   isLearning |-> edit.isLearning,
                   hobby      |-> HobbyText,
                   COUNTRY    |-> CountryText], 19)

\* E19 with a validation step: a negative age is clamped to 0 first.
E19_Validating ==
    At("exercise1", 19)
    /\ LET a == IF env["age"] < 0 THEN 0 ELSE env["age"]
       IN  Declare([birthYear  |-> 2025 - a,
                    heightInCm |-> DecMul[env["height"], DecOf[100, 0]]], 23)

\* Lines 19-20: int birthYear = 2025 - age; double heightInCm = height * 100;
E19 == At("exercise1", 19)
       /\ Declare([birthYear  |-> 2025 - env["age"],
                   heightInCm |-> DecMul[env["height"], DecOf[100, 0]]], 23)

\* Non-ASCII characters of string literals are written U+XXXX.
E23 == At("exercise1", 23) /\ Cout(<<Lit("U+1F4CB Personal Information:")>>, 24)

E24 == At("exercise1", 24) /\ Cout(<<Lit("Name: "), StrVal("name")>>, 25)

\* E25 with the days lived written next to the age.
E25_WithDaysLived ==
    At("exercise1", 25)
    /\ Cout(<<Lit("Age: "), IntVal("age"), Lit(" years old, "),
              Val("age * 365", FormatInt[env["age"] * 365]),
              Lit(" days")>>, 26)

E25 == At("exercise1", 25)
       /\ Cout(<<Lit("Age: "), IntVal("age"), Lit(" years old")>>, 26)

E26 == At("exercise1", 26)
       /\ Cout(<<Lit("Approximate birth year: "), IntVal("birthYear")>>, 27)

E27 == At("exercise1", 27)
       /\ Cout(<<Lit("Height: "), FloatVal("height"), Lit("m ("),
                 FloatVal("heightInCm"), Lit("cm)")>>, 28)

E28 == At("exercise1", 28)
       /\ Cout(<<Lit("Favorite grade: "), CharVal("grade")>>, 29)

E29 == At("exercise1", 29)
       /\ Cout(<<Lit("Currently learning C++: "),
                 Val("isLearning",
                     IF env["isLearning"] THEN YesText ELSE NoText)>>, 30)

E30 == At("exercise1", 30)
       /\ Cout(<<Lit("Favorite hobby: "), StrVal("hobby")>>, 31)

E31 == At("exercise1", 31) /\ Cout(<<Lit("Country: "), StrVal("COUNTRY")>>, 32)

E32 == At("exercise1", 32) /\ Cout(<<>>, 35)

E35 == At("exercise1", 35) /\ Cout(<<Lit("U+1F522 Fun Calculations:")>>, 36)

E36 == At("exercise1", 36)
       /\ Cout(<<Lit("Days lived (approximately): "),
                 Val("age * 365", FormatInt[env["age"] * 365]),
                 Lit(" days")>>, 37)

E37 == At("exercise1", 37)
       /\ Cout(<<Lit("Height in inches (approximately): "),
                 Val("height * 39.37",
                     FormatFloat[DecMul[env["height"], DecOf[3937, 2]], fmt]),
                 Lit(" inches")>>, 38)

\* E38 counting the terminating NUL with the characters.
E38_CountsTerminator ==
    At("exercise1", 38)
    /\ Cout(<<Lit("Name length: "),
              Val("name.length()", FormatInt[Len(env["name"]) + 1]),
              Lit(" characters")>>, 40)

E38 == At("exercise1", 38)
       /\ Cout(<<Lit("Name length: "),
                 Val("name.length()", FormatInt[Len(env["name"])]),
                 Lit(" characters")>>, 40)

E40 == At("exercise1", 40) /\ Cout(<<>>, 41)

E41 == At("exercise1", 41)
       /\ Cout(<<Lit("U+2705 Exercise 1 complete! Great job practicing with variables!")>>, 43)

E43 == At("exercise1", 43) /\ Return(0, 44)

Exercise1 ==
    \/ E5 \/ E6 \/ E7 \/ E10 \/ E19 \/ E23 \/ E24 \/ E25 \/ E26 \/ E27
    \/ E28 \/ E29 \/ E30 \/ E31 \/ E32 \/ E35 \/ E36 \/ E37 \/ E38 \/ E40
    \/ E41 \/ E43

\* ----------------------------------------- lesson1_variables.cpp, main()

L6 == At("lesson1", 6)
      /\ Cout(<<Lit("=== C++ Lesson 1: Variables and Data Types ===")>>, 7)

L7 == At("lesson1", 7) /\ Cout(<<>>, 10)

L10 == At("lesson1", 10) /\ Cout(<<Lit("1. INTEGER TYPES:")>>, 11)

\* Lines 11-14.  veryLarge = 123456789012345LL as two base-10^8 limbs.
L11 == At("lesson1", 11)
       /\ Declare([age         |-> 25,
                   smallNumber |-> 100,
                   largeNumber |-> 1000000,
                   veryLarge   |-> [hi |-> 1234567, lo |-> 89012345]], 16)

L16 == At("lesson1", 16) /\ Cout(<<Lit("int age = "), IntVal("age")>>, 17)

L17 == At("lesson1", 17)
       /\ Cout(<<Lit("short smallNumber = "), IntVal("smallNumber")>>, 18)

L18 == At("lesson1", 18)
       /\ Cout(<<Lit("long largeNumber = "), IntVal("largeNumber")>>, 19)

L19 == At("lesson1", 19)
       /\ Cout(<<Lit("long long veryLarge = "),
                 Val("veryLarge", FormatLongLong[env["veryLarge"]])>>, 20)

L20 == At("lesson1", 20) /\ Cout(<<>>, 23)

L23 == At("lesson1", 23) /\ Cout(<<Lit("2. FLOATING POINT TYPES:")>>, 24)

\* Lines 24-26: 19.99f, 384400.5, 3.14159265358979323846L (the digits a
\* long double can hold).
L24 == At("lesson1", 24)
       /\ Declare([price    |-> DecOf[1999, 2],
                   distance |-> DecOf[3844005, 1],
                   precise  |-> [neg |-> FALSE, ip |-> <<3>>,
                                 fp  |-> <<1, 4, 1, 5, 9, 2, 6, 5, 3, 5,
                                           8, 9, 7, 9, 3, 2, 3, 8>>]], 28)

\* L28 rounding the stored values to the display precision as well.
L28_RoundsStored ==
    /\ At("lesson1", 28)
    /\ fmt' = [fmt EXCEPT !.fixed = TRUE, !.precision = 2]
    /\ env' = [env EXCEPT !["precise"] = RoundTo[@, 2]]
    /\ pc' = 29
    /\ UNCHANGED <<prog, edit, depth, out, status>>

\* std::cout << std::fixed << std::setprecision(2);
L28 == At("lesson1", 28)
       /\ Manip([fmt EXCEPT !.fixed = TRUE, !.precision = 2], 29)

L29 == At("lesson1", 29)
       /\ Cout(<<Lit("float price = $"), FloatVal("price")>>, 30)

L30 == At("lesson1", 30)
       /\ Cout(<<Lit("double distance = "), FloatVal("distance"),
                 Lit(" km")>>, 31)

\* std::cout << std::setprecision(10);
L31 == At("lesson1", 31) /\ Manip([fmt EXCEPT !.precision = 10], 32)

L32 == At("lesson1", 32)
       /\ Cout(<<Lit("long double precise = "), FloatVal("precise")>>, 33)

\* L33 restoring the default format once the section is printed.
L33_ResetsFormat ==
    /\ At("lesson1", 33)
    /\ out' = Append(out, <<>>)
    /\ fmt' = DefaultFmt
    /\ pc' = 36
    /\ UNCHANGED <<prog, edit, env, depth, status>>

L33 == At("lesson1", 33) /\ Cout(<<>>, 36)

L36 == At("lesson1", 36) /\ Cout(<<Lit("3. CHARACTER TYPE:")>>, 37)

\* Lines 37-38.
L37 == At("lesson1", 37) /\ Declare([grade |-> "A", symbol |-> "$"], 40)

L40 == At("lesson1", 40)
       /\ Cout(<<Lit("char grade = '"), CharVal("grade"), Lit("'")>>, 41)

L41 == At("lesson1", 41)
       /\ Cout(<<Lit("char symbol = '"), CharVal("symbol"), Lit("'")>>, 42)

L42 == At("lesson1", 42) /\ Cout(<<>>, 45)

\* L45 with the header copied from section 3 and not updated.
L45_StaleHeader == At("lesson1", 45) /\ Cout(<<Lit("3. CHARACTER TYPE:")>>, 46)

L45 == At("lesson1", 45) /\ Cout(<<Lit("4. BOOLEAN TYPE:")>>, 46)

\* Lines 46-47.
L46 == At("lesson1", 46)
       /\ Declare([isStudent |-> TRUE, hasLicense |-> FALSE], 49)

\* std::cout << std::boolalpha;
L49 == At("lesson1", 49) /\ Manip([fmt EXCEPT !.boolalpha = TRUE], 50)

L50 == At("lesson1", 50)
       /\ Cout(<<Lit("bool isStudent = "), BoolVal("isStudent")>>, 51)

L51 == At("lesson1", 51)
       /\ Cout(<<Lit("bool hasLicense = "), BoolVal("hasLicense")>>, 52)

L52 == At("lesson1", 52) /\ Cout(<<>>, 55)

L55 == At("lesson1", 55) /\ Cout(<<Lit("5. STRING TYPE:")>>, 56)

\* Lines 56-58: fullName = firstName + " " + lastName.
L56 == At("lesson1", 56)
       /\ LET firstName == <<"J", "o", "h", "n">>
              lastName  == <<"D", "o", "e">>
          IN  Declare([firstName |-> firstName,
                       lastName  |-> lastName,
                       fullName  |-> firstName \o <<" ">> \o lastName], 60)

L60 == At("lesson1", 60)
       /\ Cout(<<Lit("std::string firstName = \""), StrVal("firstName"),
                 Lit("\"")>>, 61)

L61 == At("lesson1", 61)
       /\ Cout(<<Lit("std::string lastName = \""), StrVal("lastName"),
                 Lit("\"")>>, 62)

\* L62 streaming firstName where fullName is meant.
L62_WrongVariable ==
    At("lesson1", 62)
    /\ Cout(<<Lit("std::string fullName = \""), StrVal("firstName"),
              Lit("\"")>>, 63)

L62 == At("lesson1", 62)
       /\ Cout(<<Lit("std::string fullName = \""), StrVal("fullName"),
                 Lit("\"")>>, 63)

L63 == At("lesson1", 63)
       /\ Cout(<<Lit("String length: "),
                 Val("fullName.length()", FormatInt[Len(env["fullName"])]),
                 Lit(" characters")>>, 64)

L64 == At("lesson1", 64) /\ Cout(<<>>, 67)

L67 == At("lesson1", 67) /\ Cout(<<Lit("6. CONSTANTS:")>>, 68)

\* Lines 68-69.
L68 == At("lesson1", 68)
       /\ Declare([PI |-> DecOf[314159, 5], DAYS_IN_WEEK |-> 7], 71)

L71 == At("lesson1", 71) /\ Cout(<<Lit("const double PI = "), FloatVal("PI")>>, 72)

L72 == At("lesson1", 72)
       /\ Cout(<<Lit("const int DAYS_IN_WEEK = "), IntVal("DAYS_IN_WEEK")>>, 73)

L73 == At("lesson1", 73) /\ Cout(<<>>, 76)

L76 == At("lesson1", 76) /\ Cout(<<Lit("7. AUTO KEYWORD (Modern C++):")>>, 77)

\* Lines 77-79.
L77 == At("lesson1", 77)
       /\ Declare([autoInt    |-> 42,
                   autoDouble |-> DecOf[314, 2],
                   autoString |-> <<"H", "e", "l", "l", "o">>], 81)

L81 == At("lesson1", 81)
       /\ Cout(<<Lit("auto autoInt = "), IntVal("autoInt"),
                 Lit(" (type: int)")>>, 82)

L82 == At("lesson1", 82)
       /\ Cout(<<Lit("auto autoDouble = "), FloatVal("autoDouble"),
                 Lit(" (type: double)")>>, 83)

L83 == At("lesson1", 83)
       /\ Cout(<<Lit("auto autoString = \""), StrVal("autoString"),
                 Lit("\" (type: string)")>>, 84)

L84 == At("lesson1", 84) /\ Cout(<<>>, 87)

L87 == At("lesson1", 87) /\ Cout(<<Lit("8. VARIABLE SCOPE:")>>, 88)

L88 == At("lesson1", 88) /\ Declare([globalVar |-> 100], 89)

\* L89 with the braces forgotten: localVar is declared in main's own scope.
L89_NoBlock == At("lesson1", 89) /\ Declare([localVar |-> 200], 91)

\* Lines 89-90: the block opens and localVar is declared in it.
L89 == /\ At("lesson1", 89)
       /\ depth' = depth + 1
       /\ env' = [localVar |-> 200] @@ env
       /\ pc' = 91
       /\ UNCHANGED <<prog, edit, fmt, out, status>>

L91 == At("lesson1", 91)
       /\ Cout(<<Lit("Inside block - globalVar: "), IntVal("globalVar")>>, 92)

L92 == At("lesson1", 92)
       /\ Cout(<<Lit("Inside block - localVar: "), IntVal("localVar")>>, 93)

\* Line 93: the block closes and localVar's lifetime ends.
L93 == /\ At("lesson1", 93)
       /\ depth' = depth - 1
       /\ env' = [v \in DOMAIN env \ {"localVar"} |-> env[v]]
       /\ pc' = 95
       /\ UNCHANGED <<prog, edit, fmt, out, status>>

\* L95 with the variable left out of the statement.
L95_NoValue ==
    At("lesson1", 95) /\ Cout(<<Lit("Outside block - globalVar: ")>>, 96)

L95 == At("lesson1", 95)
       /\ Cout(<<Lit("Outside block - globalVar: "), IntVal("globalVar")>>, 96)

L96 == At("lesson1", 96) /\ Cout(<<>>, 98)

L98 == At("lesson1", 98)
       /\ Cout(<<Lit("U+1F389 Lesson 1 Complete! Try modifying the values and recompiling.")>>, 100)

L100 == At("lesson1", 100) /\ Return(0, 101)

Lesson1 ==
    \/ L6 \/ L7 \/ L10 \/ L11 \/ L16 \/ L17 \/ L18 \/ L19 \/ L20 \/ L23
    \/ L24 \/ L28 \/ L29 \/ L30 \/ L31 \/ L32 \/ L33 \/ L36 \/ L37 \/ L40
    \/ L41 \/ L42 \/ L45 \/ L46 \/ L49 \/ L50 \/ L51 \/ L52 \/ L55 \/ L56
    \/ L60 \/ L61 \/ L62 \/ L63 \/ L64 \/ L67 \/ L68 \/ L71 \/ L72 \/ L73
    \/ L76 \/ L77 \/ L81 \/ L82 \/ L83 \/ L84 \/ L87 \/ L88 \/ L89 \/ L91
    \/ L92 \/ L93 \/ L95 \/ L96 \/ L98 \/ L100

\* ------------------------------------------------------------ specification

Next == Lesson1 \/ Exercise1

Spec == Init /\ [][Next]_vars

\* A started program is scheduled until main returns.
FairSpec == Spec /\ WF_vars(Next)

Done == status # <<>>

\* ------------------------------------------------- reading the output back

\* The lines of out on which expression e is streamed.
LinesOf(e) == {i \in 1..Len(out) : \E j \in 1..Len(out[i]) : out[i][j].of = e}

\* The texts produced for expression e.
TxtsOf(e) ==
    {out[i][j].txt : <<i, j>> \in
        {ij \in (1..Len(out)) \X (1..8) :
            ij[2] <= Len(out[ij[1]]) /\ out[ij[1]][ij[2]].of = e}}

\* The lines that consist of the string literal h alone.
LinesSaying(h) == {i \in 1..Len(out) : out[i] = <<Lit(h)>>}

\* The lines that begin with the string literal h.
LinesStarting(h) ==
    {i \in 1..Len(out) : Len(out[i]) > 0 /\ out[i][1] = Lit(h)}

\* The line the step has just written, if it wrote one.
Wrote == Len(out') = Len(out) + 1

WroteOf(e) == Wrote /\ \E j \in 1..Len(out'[Len(out')]) : out'[Len(out')][j].of = e

DigitOfChar(c) == CHOOSE d \in 0..9 : DigitChars[d + 1] = c

RECURSIVE ParseNat(_)
ParseNat(t) ==
    IF t = <<>> THEN 0 ELSE ParseNat(Front(t)) * 10 + DigitOfChar(Last(t))

ParseInt(t) ==
    IF t # <<>> /\ t[1] = "-" THEN -ParseNat(Tail(t)) ELSE ParseNat(t)

RECURSIVE Pow10(_)
Pow10(e) == IF e = 0 THEN 1 ELSE 10 * Pow10(e - 1)

PointAt(t) ==
    IF \E i \in 1..Len(t) : t[i] = "." THEN CHOOSE i \in 1..Len(t) : t[i] = "."
    ELSE Len(t) + 1

FracLen(t) == IF PointAt(t) > Len(t) THEN 0 ELSE Len(t) - PointAt(t)

\* The number written as t, times 10^e (t has at most e fraction digits).
ParseScaled(t, e) ==
    LET k    == PointAt(t)
        body == SubSeq(t, 1, k - 1)
        frac == SubSeq(t, k + 1, Len(t))
        fval == ParseNat(frac) * Pow10(e - Len(frac))
    IN  IF body # <<>> /\ body[1] = "-"
        THEN -(ParseNat(Tail(body)) * Pow10(e) + fval)
        ELSE ParseNat(body) * Pow10(e) + fval

DerivedExprs == {"birthYear", "heightInCm", "age * 365", "height * 39.37"}

\* ---------------------------------------------------------------- claim C1

\* C1: for every age in -MaxAge..MaxAge and every height in Heights the
\* Personal-Info Calculator prints birthYear = 2025 - age, heightInCm =
\* height * 100, daysLived = age * 365 and heightInInches = height * 39.37,
\* unvalidated, and returns normally; age 30 and height 1.75 give 1995, 175,
\* 10950 and 68.8975, and age -5 gives 2030 and -1825.
C1_DerivedValues ==
    prog = "exercise1" =>
        /\ \A t \in TxtsOf("birthYear") : ParseInt(t) = 2025 - edit.age
        /\ \A t \in TxtsOf("heightInCm") :
              FracLen(t) = 0 /\ ParseScaled(t, 0) = edit.height
        /\ \A t \in TxtsOf("age * 365") : ParseInt(t) = edit.age * 365
        /\ \A t \in TxtsOf("height * 39.37") :
              FracLen(t) <= 4 /\ ParseScaled(t, 4) = edit.height * 3937
        /\ Done => /\ status = <<0>>
                   /\ \A e \in DerivedExprs : Cardinality(TxtsOf(e)) = 1
        /\ (edit.age = 30 /\ edit.height = 175) =>
              /\ TxtsOf("birthYear") \subseteq {<<"1", "9", "9", "5">>}
              /\ TxtsOf("heightInCm") \subseteq {<<"1", "7", "5">>}
              /\ TxtsOf("age * 365") \subseteq {<<"1", "0", "9", "5", "0">>}
              /\ TxtsOf("height * 39.37") \subseteq {<<"6", "8", ".", "8", "9", "7", "5">>}
        /\ edit.age = -5 =>
              /\ TxtsOf("birthYear") \subseteq {<<"2", "0", "3", "0">>}
              /\ TxtsOf("age * 365") \subseteq {<<"-", "1", "8", "2", "5">>}

C1_Witness ==
    /\ prog = "exercise1" /\ Done /\ status = <<0>>
    /\ edit.age = -5 /\ edit.height = 175
    /\ TxtsOf("birthYear") = {<<"2", "0", "3", "0">>}
    /\ TxtsOf("age * 365") = {<<"-", "1", "8", "2", "5">>}
    /\ TxtsOf("height * 39.37") = {<<"6", "8", ".", "8", "9", "7", "5">>}

\* ---------------------------------------------------------------- claim C2

DefaultRun == prog = "exercise1" /\ edit = DefaultEdit /\ Done

DefaultDerived ==
    /\ TxtsOf("birthYear") = {<<"2", "0", "2", "5">>}
    /\ \A t \in TxtsOf("heightInCm") : ParseScaled(t, 4) = 0
    /\ TxtsOf("age * 365") = {<<"0">>}
    /\ \A t \in TxtsOf("height * 39.37") : ParseScaled(t, 4) = 0
    /\ \A e \in DerivedExprs : Cardinality(TxtsOf(e)) = 1

\* C2 as stated: with the default placeholder values the run prints
\* birthYear 2025, heightInCm 0.0, daysLived 0, heightInInches 0.0 and a
\* name length of 15 characters.
C2_AsStated ==
    DefaultRun => DefaultDerived /\ TxtsOf("name.length()") = {<<"1", "5">>}

\* C2 amended: with the default placeholder values the run prints
\* birthYear 2025, heightInCm 0, daysLived 0, heightInInches 0 and a name
\* length of 14 characters, the length of "Your Name Here".
C2_DefaultOutput ==
    DefaultRun => DefaultDerived /\ TxtsOf("name.length()") = {<<"1", "4">>}

C2_Witness ==
    DefaultRun /\ TxtsOf("name.length()") = {<<"1", "4">>} /\ TxtsOf("birthYear") = {<<"2", "0", "2", "5">>}

\* ---------------------------------------------------------------- claim C3

RecordExprs ==
    {"name", "age", "height", "grade", "isLearning", "hobby", "COUNTRY"}

Precede(A, B) == \A a \in A, b \in B : \A i \in LinesOf(a), j \in LinesOf(b) : i < j

AllWritten(A) == \A a \in A : Cardinality(LinesOf(a)) = 1

\* C3 as stated: every line of the personal record is printed before every
\* derived metric, and the name's character count after all derived metrics.
C3_AsStated ==
    prog = "exercise1" =>
        /\ Precede(RecordExprs, DerivedExprs)
        /\ Precede(DerivedExprs, {"name.length()"})

\* C3 amended: every line of the personal record is printed before the days
\* lived and the height in inches, and the name's character count is printed
\* after all four derived metrics; the birth year is printed between the age
\* line and the height line, and the height in cm on the height line itself.
C3_OutputOrder ==
    prog = "exercise1" =>
        /\ Precede(RecordExprs, {"age * 365", "height * 39.37"})
        /\ Precede(DerivedExprs, {"name.length()"})
        /\ Precede({"name", "age"}, {"birthYear"})
        /\ Precede({"birthYear"},
                   {"height", "grade", "isLearning", "hobby", "COUNTRY"})
        /\ LinesOf("heightInCm") \subseteq LinesOf("height")
        /\ Done => AllWritten(RecordExprs \cup DerivedExprs \cup {"name.length()"})

C3_Witness ==
    /\ prog = "exercise1" /\ Done
    /\ AllWritten(RecordExprs \cup DerivedExprs \cup {"name.length()"})
    /\ \E i \in LinesOf("birthYear"), j \in LinesOf("COUNTRY") : i < j
    /\ \E i \in LinesOf("COUNTRY"), j \in LinesOf("age * 365") : i < j

\* ---------------------------------------------------------------- claim C4

Headers ==
    <<"1. INTEGER TYPES:", "2. FLOATING POINT TYPES:", "3. CHARACTER TYPE:",
      "4. BOOLEAN TYPE:", "5. STRING TYPE:", "6. CONSTANTS:",
      "7. AUTO KEYWORD (Modern C++):", "8. VARIABLE SCOPE:">>

SectionOf(e) ==
    CASE e \in {"age", "smallNumber", "largeNumber", "veryLarge"} -> 1
      [] e \in {"price", "distance", "precise"} -> 2
      [] e \in {"grade", "symbol"} -> 3
      [] e \in {"isStudent", "hasLicense"} -> 4
      [] e \in {"firstName", "lastName", "fullName", "fullName.length()"} -> 5
      [] e \in {"PI", "DAYS_IN_WEEK"} -> 6
      [] e \in {"autoInt", "autoDouble", "autoString"} -> 7
      [] e \in {"globalVar", "localVar"} -> 8

HeaderLines(k) == LinesSaying(Headers[k])

\* C4: the Walkthrough writes its eight section headers once each, in the
\* order integers, floating-point, character, boolean, string, constants,
\* inferred-type values, scope, and every value line lies after its own
\* section's header and before the next section's header.
C4_Sections ==
    prog = "lesson1" =>
        /\ \A k \in 1..8 : Cardinality(HeaderLines(k)) <= 1
        /\ Done => \A k \in 1..8 : Cardinality(HeaderLines(k)) = 1
        /\ \A k \in 1..7 : \A j \in HeaderLines(k + 1) :
              \E i \in HeaderLines(k) : i < j
        /\ \A i \in 1..Len(out) : \A j \in 1..Len(out[i]) :
              out[i][j].of # "" =>
                  LET k == SectionOf(out[i][j].of)
                  IN  /\ \E h \in HeaderLines(k) : h < i
                      /\ k < 8 => \A h \in HeaderLines(k + 1) : i < h

C4_Witness ==
    /\ prog = "lesson1" /\ Done
    /\ \A k \in 1..8 : Cardinality(HeaderLines(k)) = 1
    /\ \E h \in HeaderLines(6), i \in LinesOf("PI"), g \in HeaderLines(7) :
          h < i /\ i < g

\* ---------------------------------------------------------------- claim C5

PostBlockLines == LinesStarting("Outside block - globalVar: ")

C5_Order ==
    prog = "lesson1" =>
        /\ \A i \in LinesOf("localVar"), j \in PostBlockLines : i < j
        /\ Done => /\ Cardinality(LinesOf("localVar")) = 1
                   /\ Cardinality(PostBlockLines) = 1

C5_Step ==
    (prog = "lesson1" /\ WroteOf("localVar")) =>
        depth > 0 /\ "localVar" \in DOMAIN env

\* C5: the line printing localVar is written strictly before the post-block
\* line printing globalVar, it is written while the block is open, and no
\* line written once the block has closed references localVar.
C5_BlockLocal == [](C5_Order) /\ [][C5_Step]_vars

C5_Witness ==
    /\ prog = "lesson1" /\ depth = 0 /\ "localVar" \notin DOMAIN env
    /\ \E i \in LinesOf("localVar"), j \in PostBlockLines : i < j

\* ---------------------------------------------------------------- claim C6

\* C6 as stated: globalVar is printed once before the nested block is entered
\* and once after it has ended, with the same value: whenever the block is
\* open the first of the two lines is already written.
C6_AsStated ==
    prog = "lesson1" =>
        /\ depth > 0 => Cardinality(LinesOf("globalVar")) = 1
        /\ Done => /\ Cardinality(LinesOf("globalVar")) = 2
                   /\ Cardinality(TxtsOf("globalVar")) = 1

C6_Step ==
    (prog = "lesson1" /\ WroteOf("globalVar")) =>
        \/ /\ LinesOf("globalVar") = {}
           /\ depth = 1 /\ "localVar" \in DOMAIN env
        \/ /\ Cardinality(LinesOf("globalVar")) = 1
           /\ depth = 0 /\ "localVar" \notin DOMAIN env
           /\ LinesOf("localVar") # {}

C6_Final ==
    (prog = "lesson1" /\ Done) =>
        /\ Cardinality(LinesOf("globalVar")) = 2
        /\ TxtsOf("globalVar") = {<<"1", "0", "0">>}

\* C6 amended: globalVar is printed once inside the nested block, after the
\* block is entered and before the localVar line, and once after the block
\* has ended, with the same value both times.
C6_OuterSurvives == [](C6_Final) /\ [][C6_Step]_vars

C6_Witness ==
    /\ prog = "lesson1" /\ Done /\ depth = 0
    /\ Cardinality(LinesOf("globalVar")) = 2
    /\ TxtsOf("globalVar") = {<<"1", "0", "0">>}
    /\ \E i \in LinesOf("globalVar"), j \in LinesOf("localVar") : i < j
    /\ \E i \in LinesOf("localVar"), j \in LinesOf("globalVar") : i < j

\* ---------------------------------------------------------------- claim C7

SampleNames ==
    {"age", "smallNumber", "largeNumber", "veryLarge", "price", "distance",
     "precise", "grade", "symbol", "isStudent", "hasLicense", "firstName",
     "lastName", "fullName", "PI", "DAYS_IN_WEEK", "autoInt", "autoDouble",
     "autoString", "globalVar", "localVar"}

\* C7 as stated: each declared variable of the Walkthrough has its value
\* printed on one and only one output line.
C7_AsStated ==
    (prog = "lesson1" /\ Done) =>
        \A v \in SampleNames : Cardinality(LinesOf(v)) = 1

\* C7 amended: each declared variable of the Walkthrough other than
\* globalVar has its value printed on one and only one output line, and
\* globalVar has its value printed on exactly two.
C7_LinesPerValue ==
    prog = "lesson1" =>
        /\ \A v \in SampleNames \ {"globalVar"} : Cardinality(LinesOf(v)) <= 1
        /\ Cardinality(LinesOf("globalVar")) <= 2
        /\ Done => /\ \A v \in SampleNames \ {"globalVar"} :
                         Cardinality(LinesOf(v)) = 1
                   /\ Cardinality(LinesOf("globalVar")) = 2

C7_Witness ==
    /\ prog = "lesson1" /\ Done
    /\ Cardinality(LinesOf("globalVar")) = 2
    /\ \A v \in SampleNames \ {"globalVar"} : Cardinality(LinesOf(v)) = 1

\* ---------------------------------------------------------------- claim C8

ReturnLine(p) == IF p = "lesson1" THEN 100 ELSE 43

ClosingLine(p) ==
    IF p = "lesson1"
    THEN "U+1F389 Lesson 1 Complete! Try modifying the values and recompiling."
    ELSE "U+2705 Exercise 1 complete! Great job practicing with variables!"

C8_AtExit ==
    Done => /\ status = <<0>>
            /\ Len(out) > 0
            /\ out[Len(out)] = <<Lit(ClosingLine(prog))>>

C8_Step == status' # status => status = <<>> /\ pc = ReturnLine(prog)

\* C8: each of the two programs always terminates, returns through its one
\* return statement with status 0, and only after the closing celebratory
\* line is printed, whatever the placeholder values.
C8_Termination == <>Done /\ [](C8_AtExit) /\ [][C8_Step]_vars

C8_Witness ==
    /\ Done /\ status = <<0>> /\ prog = "exercise1" /\ edit.age < 0
    /\ out[Len(out)] = <<Lit(ClosingLine(prog))>>

\* ---------------------------------------------------------------- claim C9

C9_Step ==
    /\ \A v \in DOMAIN env \cap DOMAIN env' : env'[v] = env[v]
    /\ fmt' # fmt => env' = env /\ out' = out

C9_Values ==
    /\ (prog = "lesson1" /\ "precise" \in DOMAIN env) =>
          /\ env["price"] = DecOf[1999, 2]
          /\ env["distance"] = DecOf[3844005, 1]
          /\ Len(env["precise"].fp) = 18
    /\ (prog = "exercise1" /\ "COUNTRY" \in DOMAIN env) =>
          /\ env["COUNTRY"] = CountryText
          /\ env["name"] = edit.name
          /\ env["age"] = edit.age
          /\ Mant[env["height"]] = edit.height
          /\ env["isLearning"] = edit.isLearning

\* C9: no declared value is changed after its initialization in either
\* program: fixed, setprecision(2), setprecision(10) and boolalpha change the
\* stream's format state alone, and COUNTRY and the other record fields keep
\* their initial values up to exit.
C9_ValuesNeverChange == [](C9_Values) /\ [][C9_Step]_vars

C9_Witness ==
    /\ prog = "lesson1" /\ fmt.fixed /\ fmt.precision = 10 /\ fmt.boolalpha
    /\ "precise" \in DOMAIN env /\ Len(env["precise"].fp) = 18
    /\ env["price"] = DecOf[1999, 2]

\* --------------------------------------------------------------- claim C10

FloatExprs == {"price", "distance", "precise", "PI", "autoDouble"}

C10_Texts ==
    prog = "lesson1" =>
        /\ TxtsOf("price") \subseteq {<<"1", "9", ".", "9", "9">>}
        /\ TxtsOf("distance") \subseteq {<<"3", "8", "4", "4", "0", "0", ".", "5", "0">>}
        /\ TxtsOf("precise") \subseteq {<<"3", ".", "1", "4", "1", "5", "9", "2", "6", "5", "3", "6">>}
        /\ TxtsOf("PI") \subseteq {<<"3", ".", "1", "4", "1", "5", "9", "0", "0", "0", "0", "0">>}
        /\ TxtsOf("autoDouble") \subseteq {<<"3", ".", "1", "4", "0", "0", "0", "0", "0", "0", "0", "0">>}
        /\ <<"3", ".", "1", "4", "1", "5", "9">> \notin TxtsOf("PI")
        /\ <<"3", ".", "1", "4">> \notin TxtsOf("autoDouble")
        /\ Done => /\ \A e \in FloatExprs : Cardinality(TxtsOf(e)) = 1
                   /\ fmt = [fixed |-> TRUE, precision |-> 10,
                             boolalpha |-> TRUE]

C10_Step ==
    prog = "lesson1" =>
        /\ (WroteOf("price") \/ WroteOf("distance")) =>
              fmt.fixed /\ fmt.precision = 2
        /\ WroteOf("precise") => fmt.fixed /\ fmt.precision = 10
        /\ (fmt.fixed /\ fmt.precision = 10) =>
              fmt'.fixed /\ fmt'.precision = 10
        /\ fmt.boolalpha => fmt'.boolalpha

\* C10: price and distance are printed with 2 fixed decimals and precise
\* with 10; the format state is never reset, so from setprecision(10) on the
\* stream stays fixed with precision 10 (and boolalpha once set), and PI and
\* autoDouble are printed with 10 decimals, not as written in the source.
C10_FormatState == [](C10_Texts) /\ [][C10_Step]_vars

C10_Witness ==
    /\ prog = "lesson1" /\ Done
    /\ TxtsOf("price") = {<<"1", "9", ".", "9", "9">>}
    /\ TxtsOf("precise") = {<<"3", ".", "1", "4", "1", "5", "9", "2", "6", "5", "3", "6">>}
    /\ TxtsOf("PI") = {<<"3", ".", "1", "4", "1", "5", "9", "0", "0", "0", "0", "0">>}
    /\ TxtsOf("autoDouble") = {<<"3", ".", "1", "4", "0", "0", "0", "0", "0", "0", "0", "0">>}

====
